---- MODULE Spec2Model ----
(***************************************************************************)
(* Model of seat-planner.py: main() builds a python-constraint Problem     *)
(* over the guests (domain 1..num_tables), registers one                   *)
(* MaxPerTableConstraint and one SameTableConstraint /                     *)
(* DifferentTableConstraint per prefer / avoid pair, and prints the        *)
(* solutions that Problem.getSolutionIter() yields, up to --limit.         *)
(*                                                                         *)
(* The search itself is the library's default solver,                      *)
(* BacktrackingSolver(forwardcheck=True).getSolutionIter, driven through   *)
(* the three __call__ methods of this file; it is modelled step by step    *)
(* (select a variable / try a value / unwind / yield) together with the    *)
(* library's Domain (a list with hideValue / pushState / popState).        *)
(***************************************************************************)
EXTENDS Integers, Sequences, FiniteSets, TLC

\* ---------------------------------------------------------------- bounds
MaxGuests == 4
MaxTables == 3
MaxLimit == 2
\* argparse default of --limit
DefaultLimit == 10

\* Guest names are 1..MaxGuests+1, compared as the strings are compared.
\* The guest file holds the first g of them; the next one is a name that a
\* pair file can mention although no guest has it.
GuestSets == {1..g : g \in 0..MaxGuests}
PairNames(G) == 1..(Cardinality(G) + 1)
\* A prefer / avoid file holds no row or one row.
PairLists(G) == {<<>>} \cup {<<p>> : p \in PairNames(G) \X PairNames(G)}
Limits == (0..MaxLimit) \cup {DefaultLimit}

VARIABLES
    guests,        \* main: guests (set of names)
    num_tables,    \* main: args.tables
    prefer,        \* main: prefer (list of pairs)
    avoid,         \* main: avoid (list of pairs)
    limit,         \* main: args.limit
    per_table,     \* main: per_table
    constraints,   \* Problem._constraints as seen by the solver
    pc,            \* where the run is
    assignments,   \* solver: assignments (dict guest -> table)
    domains,       \* solver: domains (guest -> Domain)
    variable,      \* solver: variable
    values,        \* solver: values
    pushdomains,   \* solver: pushdomains (the guests whose Domain it holds)
    queue,         \* solver: queue
    solutions,     \* every dict yielded so far, in order
    num_solutions, \* main: num_solutions
    sols_seen,     \* module global sols_seen
    rendered,      \* what print_solution has printed: table, people, flag
    order,         \* the order in which the set guests is iterated in this run
    twin,          \* a second run of main on the same inputs, when one is made
    before,        \* per entry of queue: the domains before its assignment
    returned       \* what a constraint called on its own has returned

vars == <<guests, num_tables, prefer, avoid, limit, per_table, constraints, pc,
          assignments, domains, variable, values, pushdomains, queue,
          solutions, num_solutions, sols_seen, rendered, order, twin, before,
          returned>>

problem == <<guests, num_tables, prefer, avoid, limit>>

\* ------------------------------------------------------------- sequences
Last(s) == s[Len(s)]
Front(s) == SubSeq(s, 1, Len(s) - 1)
Range(s) == {s[i] : i \in 1..Len(s)}
\* list.remove(v): drop the first occurrence
RECURSIVE ListRemove(_, _)
ListRemove(s, v) ==
    IF s = <<>> THEN <<>>
    ELSE IF Head(s) = v THEN Tail(s)
    ELSE <<Head(s)>> \o ListRemove(Tail(s), v)
\* the elements of a finite set of names in ascending order
RECURSIVE SortedSeq(_)
SortedSeq(S) ==
    IF S = {} THEN <<>>
    ELSE LET m == CHOOSE x \in S : \A y \in S : x <= y
         IN <<m>> \o SortedSeq(S \ {m})
\* a list back to front
Reverse(s) == [i \in 1..Len(s) |-> s[Len(s) + 1 - i]]
\* range(1, n+1)
TableRange(n) == [i \in 1..n |-> i]

\* ---------------------------------------------------------------- Domain
\* constraint.Domain(range(1, n+1))
NewDomain(n) == [list |-> TableRange(n), hidden |-> <<>>, states |-> <<>>]
\* Domain.hideValue
hideValue(d, v) ==
    [d EXCEPT !.list = ListRemove(d.list, v), !.hidden = Append(d.hidden, v)]
\* Domain.pushState
pushState(d) == [d EXCEPT !.states = Append(d.states, Len(d.list))]
\* popState that drops the mark and puts nothing back
popStateKeepsHidden(d) == [d EXCEPT !.states = Front(d.states)]

\* Domain.popState: the values hidden since the matching pushState are put
\* back at the end of the list
popState(d) ==
    LET diff == Last(d.states) - Len(d.list)
        h == Len(d.hidden)
    IN IF diff # 0
       THEN [list |-> d.list \o SubSeq(d.hidden, h - diff + 1, h),
             hidden |-> SubSeq(d.hidden, 1, h - diff),
             states |-> Front(d.states)]
       ELSE [d EXCEPT !.states = Front(d.states)]
\* Domain.resetState
resetState(d) == [list |-> d.list \o d.hidden, hidden |-> <<>>, states |-> <<>>]

pushStates(doms, P) == [g \in DOMAIN doms |-> IF g \in P THEN pushState(doms[g]) ELSE doms[g]]
popStates(doms, P) == [g \in DOMAIN doms |-> IF g \in P THEN popState(doms[g]) ELSE doms[g]]
\* ----------------------------------------------------------- constraints
Unassigned == 0
\* assignments.get(name, _unassigned)
Get(asg, name) == IF name \in DOMAIN asg THEN asg[name] ELSE Unassigned
\* collections.Counter: a missing key counts 0
CounterGet(counter, v) == IF v \in DOMAIN counter THEN counter[v] ELSE 0
CounterInc(counter, v) ==
    [x \in DOMAIN counter \cup {v} |-> IF x = v THEN CounterGet(counter, v) + 1 ELSE counter[x]]
EmptyCounter == [x \in {} |-> 0]

MaxPerTableConstraint(k) == [kind |-> "max", max |-> k, names |-> <<0, 0>>]
SameTableConstraint(a, b) == [kind |-> "same", max |-> 0, names |-> <<a, b>>]
DifferentTableConstraint(a, b) == [kind |-> "different", max |-> 0, names |-> <<a, b>>]

\* hide each value of vs, in order
RECURSIVE HideEach(_, _)
HideEach(d, vs) ==
    IF vs = <<>> THEN d ELSE HideEach(hideValue(d, Head(vs)), Tail(vs))

\* MaxCount with the comparison off by one (> for >=)
RECURSIVE MaxCountOffByOne(_, _, _, _)
MaxCountOffByOne(variables, asg, max, counter) ==
    IF variables = <<>> THEN [ok |-> TRUE, counter |-> counter]
    ELSE LET value == Get(asg, Head(variables))
         IN IF value # Unassigned
            THEN IF CounterGet(counter, value) > max
                 THEN [ok |-> FALSE, counter |-> counter]
                 ELSE MaxCountOffByOne(Tail(variables), asg, max, CounterInc(counter, value))
            ELSE MaxCountOffByOne(Tail(variables), asg, max, counter)

\* MaxCount that stops counting at the first guest without a table
RECURSIVE MaxCountStopsAtUnassigned(_, _, _, _)
MaxCountStopsAtUnassigned(variables, asg, max, counter) ==
    IF variables = <<>> THEN [ok |-> TRUE, counter |-> counter]
    ELSE LET value == Get(asg, Head(variables))
         IN IF value # Unassigned
            THEN IF CounterGet(counter, value) >= max
                 THEN [ok |-> FALSE, counter |-> counter]
                 ELSE MaxCountStopsAtUnassigned(Tail(variables), asg, max,
                                                CounterInc(counter, value))
            ELSE [ok |-> TRUE, counter |-> counter]

\* MaxPerTableConstraint.__call__, first loop: count the assigned guests per
\* table; ok is FALSE when a table that already holds max guests gets one more
RECURSIVE MaxCount(_, _, _, _)
MaxCount(variables, asg, max, counter) ==
    IF variables = <<>> THEN [ok |-> TRUE, counter |-> counter]
    ELSE LET value == Get(asg, Head(variables))
         IN IF value # Unassigned
            THEN IF CounterGet(counter, value) >= max
                 THEN [ok |-> FALSE, counter |-> counter]
                 ELSE MaxCount(Tail(variables), asg, max, CounterInc(counter, value))
            ELSE MaxCount(Tail(variables), asg, max, counter)

\* MaxPerTableConstraint.__call__, inner forward-check loop "for v in domain":
\* the list is walked by index while hideValue shortens it
RECURSIVE MaxPrune(_, _, _, _)
MaxPrune(d, i, counter, max) ==
    IF i > Len(d.list) THEN [ok |-> TRUE, domain |-> d]
    ELSE IF CounterGet(counter, d.list[i]) > max
         THEN LET d2 == hideValue(d, d.list[i])
              IN IF d2.list = <<>> THEN [ok |-> FALSE, domain |-> d2]
                 ELSE MaxPrune(d2, i + 1, counter, max)
         ELSE MaxPrune(d, i + 1, counter, max)

\* MaxPerTableConstraint.__call__, outer forward-check loop
RECURSIVE MaxForward(_, _, _, _, _)
MaxForward(variables, doms, asg, counter, max) ==
    IF variables = <<>> THEN [ok |-> TRUE, domains |-> doms]
    ELSE LET v == Head(variables)
         IN IF v \notin DOMAIN asg
            THEN LET r == MaxPrune(doms[v], 1, counter, max)
                     doms2 == [doms EXCEPT ![v] = r.domain]
                 IN IF r.ok THEN MaxForward(Tail(variables), doms2, asg, counter, max)
                    ELSE [ok |-> FALSE, domains |-> doms2]
            ELSE MaxForward(Tail(variables), doms, asg, counter, max)

MaxPerTableCall(c, variables, doms, asg, forwardcheck) ==
    LET counted == MaxCount(variables, asg, c.max, EmptyCounter)
    IN IF ~counted.ok THEN [ok |-> FALSE, domains |-> doms]
       ELSE IF forwardcheck
            THEN MaxForward(variables, doms, asg, counted.counter, c.max)
            ELSE [ok |-> TRUE, domains |-> doms]

\* the values of a list that differ from / equal value, in list order
Others(list, value) == SelectSeq(list, LAMBDA v : v # value)
Equals(list, value) == SelectSeq(list, LAMBDA v : v = value)

\* SameTableCall with both comparisons inverted (== for !=)
SameTableCallInverted(c, variables, doms, asg, forwardcheck) ==
    LET value == Get(asg, c.names[1])
        value2 == Get(asg, c.names[2])
    IN IF value # Unassigned /\ value2 # Unassigned /\ value2 = value
       THEN [ok |-> FALSE, domains |-> doms]
       ELSE IF ~forwardcheck THEN [ok |-> TRUE, domains |-> doms]
       ELSE IF value # Unassigned /\ value2 = Unassigned
            THEN [ok |-> TRUE,
                  domains |-> [doms EXCEPT ![c.names[2]] =
                                 HideEach(@, Equals(@.list, value))]]
       ELSE IF value2 # Unassigned /\ value = Unassigned
            THEN [ok |-> TRUE,
                  domains |-> [doms EXCEPT ![c.names[1]] =
                                 HideEach(@, Equals(@.list, value2))]]
       ELSE [ok |-> TRUE, domains |-> doms]

\* SameTableCall whose forward check looks at the first name of the pair only
SameTableCallFirstOnly(c, variables, doms, asg, forwardcheck) ==
    LET value == Get(asg, c.names[1])
        value2 == Get(asg, c.names[2])
    IN IF value # Unassigned /\ value2 # Unassigned /\ value2 # value
       THEN [ok |-> FALSE, domains |-> doms]
       ELSE IF ~forwardcheck THEN [ok |-> TRUE, domains |-> doms]
       ELSE IF value # Unassigned /\ value2 = Unassigned
            THEN [ok |-> TRUE,
                  domains |-> [doms EXCEPT ![c.names[2]] =
                                 HideEach(@, Others(@.list, value))]]
       ELSE [ok |-> TRUE, domains |-> doms]

SameTableCall(c, variables, doms, asg, forwardcheck) ==
    LET value == Get(asg, c.names[1])
        value2 == Get(asg, c.names[2])
    IN IF value # Unassigned /\ value2 # Unassigned /\ value2 # value
       THEN [ok |-> FALSE, domains |-> doms]
       ELSE IF ~forwardcheck THEN [ok |-> TRUE, domains |-> doms]
       ELSE IF value # Unassigned /\ value2 = Unassigned
            THEN [ok |-> TRUE,
                  domains |-> [doms EXCEPT ![c.names[2]] =
                                 HideEach(@, Others(@.list, value))]]
       ELSE IF value2 # Unassigned /\ value = Unassigned
            THEN [ok |-> TRUE,
                  domains |-> [doms EXCEPT ![c.names[1]] =
                                 HideEach(@, Others(@.list, value2))]]
       ELSE [ok |-> TRUE, domains |-> doms]

\* DifferentTableCall with both comparisons inverted (!= for ==)
DifferentTableCallInverted(c, variables, doms, asg, forwardcheck) ==
    LET value == Get(asg, c.names[1])
        value2 == Get(asg, c.names[2])
    IN IF value # Unassigned /\ value2 # Unassigned /\ value2 # value
       THEN [ok |-> FALSE, domains |-> doms]
       ELSE IF ~forwardcheck THEN [ok |-> TRUE, domains |-> doms]
       ELSE IF value # Unassigned /\ value2 = Unassigned
            THEN [ok |-> TRUE,
                  domains |-> [doms EXCEPT ![c.names[2]] =
                                 HideEach(@, Others(@.list, value))]]
       ELSE IF value2 # Unassigned /\ value = Unassigned
            THEN [ok |-> TRUE,
                  domains |-> [doms EXCEPT ![c.names[1]] =
                                 HideEach(@, Others(@.list, value2))]]
       ELSE [ok |-> TRUE, domains |-> doms]

\* DifferentTableCall that tests the pair only when forward checking
DifferentTableCallForwardOnly(c, variables, doms, asg, forwardcheck) ==
    LET value == Get(asg, c.names[1])
        value2 == Get(asg, c.names[2])
    IN IF ~forwardcheck THEN [ok |-> TRUE, domains |-> doms]
       ELSE IF value # Unassigned /\ value2 # Unassigned /\ value2 = value
       THEN [ok |-> FALSE, domains |-> doms]
       ELSE IF value # Unassigned /\ value2 = Unassigned
            THEN [ok |-> TRUE,
                  domains |-> [doms EXCEPT ![c.names[2]] =
                                 HideEach(@, Equals(@.list, value))]]
       ELSE IF value2 # Unassigned /\ value = Unassigned
            THEN [ok |-> TRUE,
                  domains |-> [doms EXCEPT ![c.names[1]] =
                                 HideEach(@, Equals(@.list, value2))]]
       ELSE [ok |-> TRUE, domains |-> doms]

\* DifferentTableCall that hides the table from the guest who has it
DifferentTableCallHidesSeated(c, variables, doms, asg, forwardcheck) ==
    LET value == Get(asg, c.names[1])
        value2 == Get(asg, c.names[2])
    IN IF value # Unassigned /\ value2 # Unassigned /\ value2 = value
       THEN [ok |-> FALSE, domains |-> doms]
       ELSE IF ~forwardcheck THEN [ok |-> TRUE, domains |-> doms]
       ELSE IF value # Unassigned /\ value2 = Unassigned
            THEN [ok |-> TRUE,
                  domains |-> [doms EXCEPT ![c.names[1]] =
                                 HideEach(@, Equals(@.list, value))]]
       ELSE IF value2 # Unassigned /\ value = Unassigned
            THEN [ok |-> TRUE,
                  domains |-> [doms EXCEPT ![c.names[2]] =
                                 HideEach(@, Equals(@.list, value2))]]
       ELSE [ok |-> TRUE, domains |-> doms]

DifferentTableCall(c, variables, doms, asg, forwardcheck) ==
    LET value == Get(asg, c.names[1])
        value2 == Get(asg, c.names[2])
    IN IF value # Unassigned /\ value2 # Unassigned /\ value2 = value
       THEN [ok |-> FALSE, domains |-> doms]
       ELSE IF ~forwardcheck THEN [ok |-> TRUE, domains |-> doms]
       ELSE IF value # Unassigned /\ value2 = Unassigned
            THEN [ok |-> TRUE,
                  domains |-> [doms EXCEPT ![c.names[2]] =
                                 HideEach(@, Equals(@.list, value))]]
       ELSE IF value2 # Unassigned /\ value = Unassigned
            THEN [ok |-> TRUE,
                  domains |-> [doms EXCEPT ![c.names[1]] =
                                 HideEach(@, Equals(@.list, value2))]]
       ELSE [ok |-> TRUE, domains |-> doms]

\* constraint(variables, domains, assignments, forwardcheck)
Call(c, variables, doms, asg, forwardcheck) ==
    IF c.kind = "max" THEN MaxPerTableCall(c, variables, doms, asg, forwardcheck)
    ELSE IF c.kind = "same" THEN SameTableCall(c, variables, doms, asg, forwardcheck)
    ELSE DifferentTableCall(c, variables, doms, asg, forwardcheck)

\* the solver's loop over vconstraints[variable]: stop at the first constraint
\* that returns False; the domains keep what the calls made so far have hidden
RECURSIVE CallAll(_, _, _, _, _)
CallAll(cs, variables, doms, asg, forwardcheck) ==
    IF cs = <<>> THEN [ok |-> TRUE, domains |-> doms]
    ELSE LET r == Call(Head(cs), variables, doms, asg, forwardcheck)
         IN IF r.ok THEN CallAll(Tail(cs), variables, r.domains, asg, forwardcheck)
            ELSE r
\* ------------------------------------------------------------------ main
\* per_table = int((total_guests+1)/num_tables)
PerTable(total_guests, tables) == (total_guests + 1) \div tables

\* Known that looks at the first name of the row only
KnownFirstOnly(G, p) == p[1] \in G
\* "p[0] in guests and p[1] in guests" for every row of both files; when it
\* fails for some row main raises Exception("... not in guests!")
Known(G, p) == p[1] \in G /\ p[2] \in G
AllKnown(G, pf, av) ==
    /\ \A i \in 1..Len(pf) : Known(G, pf[i])
    /\ \A i \in 1..Len(av) : Known(G, av[i])

\* the addConstraint calls of main, in order
Registered(k, pf, av) ==
    <<MaxPerTableConstraint(k)>>
      \o [i \in 1..Len(pf) |-> SameTableConstraint(pf[i][1], pf[i][2])]
      \o [i \in 1..Len(av) |-> DifferentTableConstraint(av[i][1], av[i][2])]

\* InitialDomains with range(0, num_tables) for range(1, num_tables+1)
InitialDomainsFromZero(G, n) ==
    [g \in G |-> [list |-> [i \in 1..n |-> i - 1], hidden |-> <<>>, states |-> <<>>]]
\* problem.addVariables(guests, range(1, num_tables+1))
InitialDomains(G, n) == [g \in G |-> NewDomain(n)]

\* "for l in f: guests.add(l.strip())" builds a set of strings, whose iteration
\* order differs from run to run (string hashing is randomised per process);
\* two of the orders a run can see: by name, and by name backwards
Orders(G) == {SortedSeq(G), Reverse(SortedSeq(G))}

\* addConstraint is given no variables, so every constraint is called with the
\* list of all variables: the keys of the dict that addVariables filled by
\* iterating the set guests
Variables(G) == order

\* Constraint.preProcess, which Problem._getArgs runs for every constraint:
\* with a single variable, the values the constraint rejects are removed from
\* its domain and the constraint is dropped
PreProcessDomain(c, variables, doms) ==
    LET v == variables[1]
    IN [doms EXCEPT ![v].list =
          SelectSeq(@, LAMBDA value : Call(c, variables, doms, (v :> value), FALSE).ok)]
RECURSIVE PreProcess(_, _, _)
PreProcess(cs, variables, doms) ==
    IF cs = <<>> THEN doms
    ELSE PreProcess(Tail(cs), variables, PreProcessDomain(Head(cs), variables, doms))

\* Problem._getArgs: the domains and constraints handed to the solver
ArgDomains(G, n, cs) ==
    LET doms == IF Cardinality(G) = 1
                THEN PreProcess(cs, Variables(G), InitialDomains(G, n))
                ELSE InitialDomains(G, n)
    IN [g \in G |-> resetState(doms[g])]
ArgConstraints(G, cs) == IF Cardinality(G) = 1 THEN <<>> ELSE cs

\* swap_kv_list followed by sorted(sol[t]): table -> sorted list of its guests
swap_kv_list(s) ==
    [t \in {s[g] : g \in DOMAIN s} |-> SortedSeq({g \in DOMAIN s : s[g] = t})]

\* The names of the guests as the lines of the guest file give them; sorted()
\* and the solver compare them as strings, which for these names is the order
\* of their numbers. The second name is one that holds quotes and a comma.
GuestName(g) ==
    IF g = 1 THEN "A"
    ELSE IF g = 2 THEN "A', 'B"
    ELSE IF g = 3 THEN "B"
    ELSE IF g = 4 THEN "C"
    ELSE IF g = 5 THEN "D"
    ELSE "G" \o ToString(g)
\* repr without a choice of quote: always '...'
reprSingleQuoted(g) == "'" \o GuestName(g) \o "'"
\* repr of a name, as str() of a list applies it to each item: in '...', or in
\* "..." when the name holds a ' and no "
repr(g) ==
    IF g = 2 THEN "\"" \o GuestName(g) \o "\""
    ELSE "'" \o GuestName(g) \o "'"
\* ", ".join of the reprs
RECURSIVE Join(_)
Join(l) ==
    IF l = <<>> THEN ""
    ELSE IF Len(l) = 1 THEN repr(l[1])
    ELSE repr(l[1]) \o ", " \o Join(Tail(l))
\* str() of a list of names
str(l) == "[" \o Join(l) \o "]"

\* print_solution, the loop over sorted(sol.keys()): returns the lines printed
\* and the new sols_seen
RECURSIVE PrintTables(_, _, _, _)
PrintTables(ts, sol, seen, out) ==
    IF ts = <<>> THEN [seen |-> seen, out |-> out]
    ELSE LET t == Head(ts)
             tbltext == str(sol[t])
         IN PrintTables(Tail(ts), sol, seen \cup {tbltext},
                        Append(out, [table |-> t, people |-> sol[t],
                                     tbltext |-> tbltext,
                                     flagged |-> tbltext \in seen]))
print_solution(s, seen, out) ==
    LET sol == swap_kv_list(s)
    IN PrintTables(SortedSeq(DOMAIN sol), sol, seen, out)

\* ---------------------------------------------------------------- solver
EmptyDict == [x \in {} |-> 0]
Del(asg, v) == [g \in (DOMAIN asg) \ {v} |-> asg[g]]
Put(asg, v, value) == [g \in (DOMAIN asg) \cup {v} |-> IF g = v THEN value ELSE asg[g]]

\* SortKeyLess with the names compared backwards
SortKeyLessNameLast(cs, doms, a, b) ==
    LET la == Len(doms[a].list)
        lb == Len(doms[b].list)
    IN \/ la < lb
       \/ la = lb /\ a > b

\* the solver's sort key (-len(vconstraints[v]), len(domains[v]), v); every
\* constraint lists every variable, so vconstraints[v] is the whole list
SortKeyLess(cs, doms, a, b) ==
    LET la == Len(doms[a].list)
        lb == Len(doms[b].list)
    IN \/ -Len(cs) < -Len(cs)
       \/ la < lb
       \/ la = lb /\ a < b
\* the first item of the sorted list that is not in assignments
NextVariable(cs, doms, asg) ==
    LET U == (DOMAIN doms) \ (DOMAIN asg)
    IN CHOOSE v \in U : \A w \in U \ {v} : SortKeyLess(cs, doms, v, w)

\* ------------------------------------------------- a second run, in step
\* The same program as a function of one run's state t (a record of the
\* variables above), so that a second run of main on the same files, with its
\* own iteration order of the set, can be stepped next to the first.
RunInit(ord) ==
    [order |-> ord, pc |-> "main", constraints |-> <<>>, assignments |-> EmptyDict,
     domains |-> EmptyDict, variable |-> 0, values |-> <<>>, pushdomains |-> {},
     queue |-> <<>>, solutions |-> <<>>, num_solutions |-> 0]

RunMain(t) ==
    IF ~AllKnown(guests, prefer, avoid) THEN [t EXCEPT !.pc = "config_error"]
    ELSE LET cs == Registered(PerTable(Cardinality(guests), num_tables), prefer, avoid)
             doms == ArgDomains(guests, num_tables, cs)
         IN [t EXCEPT !.constraints = ArgConstraints(guests, cs),
                      !.domains = doms,
                      !.pc = IF guests = {} \/ \E g \in guests : doms[g].list = <<>>
                             THEN "exhausted" ELSE "select"]

RunSelect(t) ==
    IF (DOMAIN t.domains) \ (DOMAIN t.assignments) # {}
    THEN LET v == NextVariable(t.constraints, t.domains, t.assignments)
         IN [t EXCEPT !.variable = v,
                      !.values = t.domains[v].list,
                      !.pushdomains = ((DOMAIN t.domains) \ (DOMAIN t.assignments)) \ {v},
                      !.pc = "try"]
    ELSE [t EXCEPT !.solutions = Append(@, t.assignments), !.pc = "yield"]

RunTryValue(t) ==
    LET asg == Put(t.assignments, t.variable, Last(t.values))
        pushed == IF t.pushdomains # {} THEN pushStates(t.domains, t.pushdomains)
                  ELSE t.domains
        r == CallAll(t.constraints, t.order, pushed, asg, t.pushdomains # {})
    IN IF r.ok
       THEN [t EXCEPT !.assignments = asg,
                      !.values = Front(@),
                      !.domains = r.domains,
                      !.queue = Append(@, [variable |-> t.variable,
                                           values |-> Front(t.values),
                                           pushdomains |-> t.pushdomains]),
                      !.pc = "select"]
       ELSE [t EXCEPT !.assignments = asg,
                      !.values = Front(@),
                      !.domains = IF t.pushdomains # {}
                                  THEN popStates(r.domains, t.pushdomains)
                                  ELSE r.domains]

RunExhaust(t) ==
    IF t.variable \in DOMAIN t.assignments
    THEN [t EXCEPT !.assignments = Del(@, t.variable), !.pc = "back"]
    ELSE [t EXCEPT !.pc = "key_error"]

RunPopQueue(t) ==
    LET top == Last(t.queue)
    IN [t EXCEPT !.queue = Front(@),
                 !.variable = top.variable,
                 !.values = top.values,
                 !.pushdomains = top.pushdomains,
                 !.domains = IF top.pushdomains # {}
                             THEN popStates(@, top.pushdomains) ELSE @]

RunUnwind(t) ==
    IF t.queue = <<>> THEN [t EXCEPT !.pc = "exhausted"]
    ELSE LET u == RunPopQueue(t)
         IN IF u.values # <<>> THEN [u EXCEPT !.pc = "try"]
            ELSE IF u.variable \in DOMAIN u.assignments
                 THEN [u EXCEPT !.assignments = Del(@, u.variable)]
                 ELSE [u EXCEPT !.pc = "key_error"]

RunConsume(t) ==
    [t EXCEPT !.num_solutions = @ + 1,
              !.pc = IF t.num_solutions + 1 >= limit THEN "limit" ELSE "resume"]

RunResume(t) ==
    IF t.queue = <<>> THEN [t EXCEPT !.pc = "exhausted"]
    ELSE [RunPopQueue(t) EXCEPT !.pc = "try"]

\* no second run is made
NoRun == [RunInit(<<>>) EXCEPT !.pc = "none"]

\* one step of the run t; a run that has ended, or is not made, stays as it is
RunStep(t) ==
    IF t.pc = "main" THEN RunMain(t)
    ELSE IF t.pc = "select" THEN RunSelect(t)
    ELSE IF t.pc = "try" /\ t.values # <<>> THEN RunTryValue(t)
    ELSE IF t.pc = "try" THEN RunExhaust(t)
    ELSE IF t.pc = "back" THEN RunUnwind(t)
    ELSE IF t.pc = "yield" THEN RunConsume(t)
    ELSE IF t.pc = "resume" THEN RunResume(t)
    ELSE t

\* with every step of the run: the second run takes its step, and the domains
\* as they were before an assignment are kept for as long as its entry is on
\* the queue
Track ==
    /\ order' = order
    /\ twin' = RunStep(twin)
    /\ before' = IF Len(queue') > Len(queue) THEN Append(before, domains)
                 ELSE IF Len(queue') < Len(queue) THEN Front(before)
                 ELSE before
    /\ returned' = returned

\* no constraint has been called on its own
NotCalled == [forwardcheck |-> FALSE, ok |-> TRUE]

Inputs ==
    /\ guests \in GuestSets
    /\ num_tables \in 1..MaxTables
    /\ prefer \in PairLists(guests)
    /\ avoid \in PairLists(guests)
    /\ limit \in Limits
    /\ per_table = 0
    /\ constraints = <<>>
    /\ pc = "main"
    /\ assignments = EmptyDict
    /\ domains = EmptyDict
    /\ variable = 0
    /\ values = <<>>
    /\ pushdomains = {}
    /\ queue = <<>>
    /\ solutions = <<>>
    /\ num_solutions = 0
    /\ sols_seen = {}
    /\ rendered = <<>>
    /\ before = <<>>
    /\ returned = NotCalled

\* one run of the program
Init ==
    /\ Inputs
    /\ order \in Orders(guests)
    /\ twin = NoRun

\* two runs on the same files that iterate the set in opposite orders
InitTwice ==
    /\ Inputs
    /\ order = SortedSeq(guests)
    /\ twin = RunInit(Reverse(order))

\* ---------------------------------------- one constraint called on its own
\* a dict that gives a table to some of the guests
PartialAssignments(G, n) == UNION {[S -> 1..n] : S \in SUBSET G}
\* a Domain as the solver hands it to a constraint: after pushState, with all
\* the tables or with one of them hidden earlier
CallDomains(n) ==
    {pushState(NewDomain(n))}
      \cup {pushState(hideValue(pushState(NewDomain(n)), t)) : t \in 1..n}
\* the constraints main can register for the guests G
CallConstraints(G, k) ==
    {MaxPerTableConstraint(k)}
      \cup {SameTableConstraint(p[1], p[2]) : p \in G \X G}
      \cup {DifferentTableConstraint(p[1], p[2]) : p \in G \X G}

\* a constraint of main, about to be called with some assignment of some of
\* the guests
InitCall ==
    /\ guests \in GuestSets \ {{}}
    /\ num_tables \in 1..MaxTables
    /\ order \in Orders(guests)
    /\ per_table = PerTable(Cardinality(guests), num_tables)
    /\ \E c \in CallConstraints(guests, per_table) :
          /\ constraints = <<c>>
          /\ prefer = IF c.kind = "same" THEN <<c.names>> ELSE <<>>
          /\ avoid = IF c.kind = "different" THEN <<c.names>> ELSE <<>>
    /\ assignments \in PartialAssignments(guests, num_tables)
    /\ \E d \in CallDomains(num_tables) : domains = [g \in guests |-> d]
    /\ limit = DefaultLimit
    /\ pc = "call"
    /\ variable = 0
    /\ values = <<>>
    /\ pushdomains = {}
    /\ queue = <<>>
    /\ solutions = <<>>
    /\ num_solutions = 0
    /\ sols_seen = {}
    /\ rendered = <<>>
    /\ before = <<>>
    /\ returned = NotCalled
    /\ twin = NoRun

\* constraint(variables, domains, assignments, forwardcheck): the call changes
\* the domains in place and returns True or False
Evaluate ==
    /\ pc = "call"
    /\ \E forwardcheck \in BOOLEAN :
          LET r == Call(constraints[1], Variables(guests), domains, assignments,
                        forwardcheck)
          IN /\ domains' = r.domains
             /\ returned' = [forwardcheck |-> forwardcheck, ok |-> r.ok]
    /\ before' = <<domains>>
    /\ pc' = "returned"
    /\ UNCHANGED <<problem, per_table, constraints, assignments, variable, values,
                   pushdomains, queue, solutions, num_solutions, sols_seen,
                   rendered, order, twin>>

\* main up to "solutions = problem.getSolutionIter()"
Main ==
    /\ pc = "main"
    /\ per_table' = PerTable(Cardinality(guests), num_tables)
    /\ IF ~AllKnown(guests, prefer, avoid)
       THEN /\ pc' = "config_error"
            /\ UNCHANGED <<constraints, domains>>
       ELSE LET cs == Registered(per_table', prefer, avoid)
                doms == ArgDomains(guests, num_tables, cs)
            IN /\ constraints' = ArgConstraints(guests, cs)
               /\ domains' = doms
               /\ pc' = IF guests = {} \/ \E g \in guests : doms[g].list = <<>>
                        THEN "exhausted" ELSE "select"
    /\ UNCHANGED <<problem, assignments, variable, values, pushdomains, queue,
                   solutions, num_solutions, sols_seen, rendered>>
    /\ Track

\* solver: top of the outer loop; pick the next variable or yield a solution
Select ==
    /\ pc = "select"
    /\ IF (DOMAIN domains) \ (DOMAIN assignments) # {}
       THEN LET v == NextVariable(constraints, domains, assignments)
            IN /\ variable' = v
               /\ values' = domains[v].list
               /\ pushdomains' = ((DOMAIN domains) \ (DOMAIN assignments)) \ {v}
               /\ pc' = "try"
               /\ UNCHANGED solutions
       ELSE /\ solutions' = Append(solutions, assignments)
            /\ pc' = "yield"
            /\ UNCHANGED <<variable, values, pushdomains>>
    /\ UNCHANGED <<problem, per_table, constraints, assignments, domains, queue,
                   num_solutions, sols_seen, rendered>>
    /\ Track

\* solver: "assignments[variable] = values.pop()", pushState, the constraint
\* loop, and popState when a constraint returns False
TryValue ==
    /\ pc = "try"
    /\ values # <<>>
    /\ LET asg == Put(assignments, variable, Last(values))
           pushed == IF pushdomains # {} THEN pushStates(domains, pushdomains) ELSE domains
           r == CallAll(constraints, Variables(guests), pushed, asg, pushdomains # {})
       IN /\ assignments' = asg
          /\ values' = Front(values)
          /\ IF r.ok
             THEN /\ domains' = r.domains
                  /\ queue' = Append(queue, [variable |-> variable, values |-> values',
                                             pushdomains |-> pushdomains])
                  /\ pc' = "select"
             ELSE /\ domains' = IF pushdomains # {} THEN popStates(r.domains, pushdomains)
                                ELSE r.domains
                  /\ queue' = queue
                  /\ pc' = "try"
    /\ UNCHANGED <<problem, per_table, constraints, variable, pushdomains,
                   solutions, num_solutions, sols_seen, rendered>>
    /\ Track

\* solver: "if not values: del assignments[variable]"; the del raises KeyError
\* when the variable was never given a value
Exhaust ==
    /\ pc = "try"
    /\ values = <<>>
    /\ IF variable \in DOMAIN assignments
       THEN /\ assignments' = Del(assignments, variable)
            /\ pc' = "back"
       ELSE /\ pc' = "key_error"
            /\ UNCHANGED assignments
    /\ UNCHANGED <<problem, per_table, constraints, domains, variable, values,
                   pushdomains, queue, solutions, num_solutions, sols_seen, rendered>>
    /\ Track

\* what "variable, values, pushdomains = queue.pop()" and the popState loop do
PopQueue ==
    LET top == Last(queue)
    IN /\ queue' = Front(queue)
       /\ variable' = top.variable
       /\ values' = top.values
       /\ pushdomains' = top.pushdomains
       /\ domains' = IF top.pushdomains # {} THEN popStates(domains, top.pushdomains)
                     ELSE domains

\* solver: one round of "while queue:" after a variable ran out of values
Unwind ==
    /\ pc = "back"
    /\ IF queue = <<>>
       THEN /\ pc' = "exhausted"
            /\ UNCHANGED <<assignments, domains, variable, values, pushdomains, queue>>
       ELSE /\ PopQueue
            /\ IF values' # <<>>
               THEN /\ pc' = "try"
                    /\ UNCHANGED assignments
               ELSE IF variable' \in DOMAIN assignments
                    THEN /\ assignments' = Del(assignments, variable')
                         /\ pc' = "back"
                    ELSE /\ pc' = "key_error"
                         /\ UNCHANGED assignments
    /\ UNCHANGED <<problem, per_table, constraints, solutions, num_solutions,
                   sols_seen, rendered>>
    /\ Track

\* main: the body of "for s in solutions"
Consume ==
    /\ pc = "yield"
    /\ num_solutions' = num_solutions + 1
    /\ LET p == print_solution(Last(solutions), sols_seen, rendered)
       IN /\ sols_seen' = p.seen
          /\ rendered' = p.out
    /\ pc' = IF num_solutions' >= limit THEN "limit" ELSE "resume"
    /\ UNCHANGED <<problem, per_table, constraints, assignments, domains, variable,
                   values, pushdomains, queue, solutions>>
    /\ Track

\* solver: the generator is resumed after its yield
Resume ==
    /\ pc = "resume"
    /\ IF queue = <<>>
       THEN /\ pc' = "exhausted"
            /\ UNCHANGED <<domains, variable, values, pushdomains, queue>>
       ELSE /\ PopQueue
            /\ pc' = "try"
    /\ UNCHANGED <<problem, per_table, constraints, assignments, solutions,
                   num_solutions, sols_seen, rendered>>
    /\ Track

Next ==
    \/ Main
    \/ Select
    \/ TryValue
    \/ Exhaust
    \/ Unwind
    \/ Consume
    \/ Resume

Spec == Init /\ [][Next]_vars
SpecTwice == InitTwice /\ [][Next]_vars
SpecCall == InitCall /\ [][Evaluate]_vars
\* the interpreter runs main without pause: a step that can be taken is taken
FairSpec == Spec /\ WF_vars(Next)
\* ----------------------------------------------------------- properties
Tables == 1..num_tables
\* the guests a dict seats at table t
SeatedAt(s, t) == {g \in DOMAIN s : s[g] = t}
Emitted == {solutions[i] : i \in 1..Len(solutions)}
Terminal == pc \in {"exhausted", "limit", "config_error", "key_error"}
\* the search has been handed a validated problem
Searching == pc \notin {"main", "config_error"}

\* what the three kinds of constraint ask of a complete seating
WithinCapacity(s) == \A t \in Tables : Cardinality(SeatedAt(s, t)) <= per_table
Together(s) == \A i \in 1..Len(prefer) : s[prefer[i][1]] = s[prefer[i][2]]
Apart(s) == \A i \in 1..Len(avoid) : s[avoid[i][1]] # s[avoid[i][2]]
\* every total seating of the guests that meets all of them
ValidAssignments ==
    {s \in [guests -> Tables] : WithinCapacity(s) /\ Together(s) /\ Apart(s)}

\* C1: in every solution the search has emitted, no table holds more than
\* per_table guests.
CapacityInvariant == \A s \in Emitted : WithinCapacity(s)
\* a solution with a full table, in a problem where not all guests fit at one
WitnessCapacity ==
    /\ Cardinality(guests) > per_table
    /\ \E s \in Emitted : \E t \in Tables : Cardinality(SeatedAt(s, t)) = per_table

\* C2: in every emitted solution the two guests of every prefer pair have the
\* same table.
EqualityInvariant == \A s \in Emitted : Together(s)
\* a solution of a problem with several tables whose prefer pair names two
\* guests, the later-sorted one first
WitnessEquality ==
    /\ num_tables > 1
    /\ Len(prefer) = 1 /\ prefer[1][1] > prefer[1][2]
    /\ Len(avoid) = 1
    /\ Emitted # {}

CompleteAssignment ==
    \A s \in Emitted : DOMAIN s = guests /\ \A g \in guests : s[g] \in Tables
\* a solution for several guests that uses the first and the last table
WitnessComplete ==
    /\ Cardinality(guests) > 1 /\ num_tables > 1
    /\ \E s \in Emitted : \E g, h \in guests : s[g] = 1 /\ s[h] = num_tables

\* C5 as stated: when the sequence has been consumed to exhaustion, the
\* emitted solutions are exactly the valid seatings, each emitted once.
ExhaustiveEnumeration ==
    pc = "exhausted" =>
        /\ Emitted = ValidAssignments
        /\ Len(solutions) = Cardinality(ValidAssignments)
\* C5 amended: the same, for a problem with at least one guest.
ExhaustiveEnumerationOfGuests ==
    (pc = "exhausted" /\ guests # {}) =>
        /\ Emitted = ValidAssignments
        /\ Len(solutions) = Cardinality(ValidAssignments)
\* three guests, three tables, one seat each, no pairs: six solutions
WitnessExhaustive ==
    /\ pc = "exhausted"
    /\ Cardinality(guests) = 3 /\ num_tables = 3 /\ per_table = 1
    /\ prefer = <<>> /\ avoid = <<>>
    /\ Len(solutions) = 6
\* every name in the prefer and avoid rows is the name of a guest
NamesDeclared ==
    /\ \A i \in 1..Len(prefer) : {prefer[i][1], prefer[i][2]} \subseteq guests
    /\ \A i \in 1..Len(avoid) : {avoid[i][1], avoid[i][2]} \subseteq guests
\* the run ended without an exception
EndedNormally == pc \in {"exhausted", "limit"}

\* C6: when per_table * num_tables is less than the number of guests, the
\* search emits no solution and ends by exhaustion, not in an error.
EmptinessCorrectness ==
    (pc # "main" /\ NamesDeclared /\ per_table * num_tables < Cardinality(guests)) =>
        /\ solutions = <<>>
        /\ pc # "key_error"
        /\ Terminal => pc = "exhausted"

\* the prefer row and the avoid row name the same two different guests
Contradiction ==
    /\ Len(prefer) = 1 /\ Len(avoid) = 1
    /\ {prefer[1][1], prefer[1][2]} = {avoid[1][1], avoid[1][2]}
    /\ prefer[1][1] # prefer[1][2]
\* C7: when a prefer row and an avoid row name the same pair and the tables
\* have room for all guests, the search emits no solution and ends by
\* exhaustion; it does not fault.
ContradictionReportsZero ==
    (pc # "main" /\ NamesDeclared /\ Contradiction
       /\ per_table * num_tables >= Cardinality(guests)) =>
        /\ solutions = <<>>
        /\ pc # "key_error"
        /\ Terminal => pc = "exhausted"

\* ceil(g / n) for g >= 0, n >= 1
Ceil(g, n) == (g + n - 1) \div n
\* C8: the capacity main computes is ceil(|guests| / num_tables), so all
\* guests fit, and a problem without pairs has a solution.
CapacityDerivation ==
    pc # "main" =>
        /\ per_table = Ceil(Cardinality(guests), num_tables)
        /\ per_table * num_tables >= Cardinality(guests)
        /\ (Terminal /\ prefer = <<>> /\ avoid = <<>>) => Len(solutions) >= 1

Min(a, b) == IF a <= b THEN a ELSE b
\* the number of solutions the sequence of the problem holds
TotalSolutions == IF guests = {} THEN 0 ELSE Cardinality(ValidAssignments)
\* C9: when main has ended, it has pulled and printed min(limit, S) solutions
\* and never more than limit.
SolutionLimit ==
    EndedNormally =>
        /\ num_solutions = Min(limit, TotalSolutions)
        /\ Len(solutions) = num_solutions
        /\ num_solutions <= limit

\* C10: a prefer or avoid row naming somebody who is not a guest ends the run
\* in the exception before anything is searched or emitted, and whenever the
\* search runs, its equality and inequality constraints name guests only.
UnknownGuestRejection ==
    /\ (pc # "main" /\ ~NamesDeclared) =>
          /\ pc = "config_error"
          /\ solutions = <<>> /\ num_solutions = 0
          /\ assignments = EmptyDict /\ domains = EmptyDict
    /\ Searching =>
          /\ NamesDeclared
          /\ \A i \in 1..Len(constraints) :
                constraints[i].kind # "max" =>
                    {constraints[i].names[1], constraints[i].names[2]} \subseteq guests
\* the run was refused for an avoid row whose second name is no guest, after
\* a prefer row that names guests
WitnessUnknownGuest ==
    /\ pc = "config_error"
    /\ Len(prefer) = 1 /\ {prefer[1][1], prefer[1][2]} \subseteq guests
    /\ Len(avoid) = 1 /\ avoid[1][1] \in guests /\ avoid[1][2] \notin guests
\* a search that runs with an equality and an inequality constraint
WitnessDeclaredSearch ==
    /\ pc = "try"
    /\ Len(constraints) = 3
\* C11: two runs on the same guests, tables, limit and pairs, stepped
\* together, are at the same place with the same assignments and domains at
\* every step and have emitted the same solutions in the same order, although
\* they iterate the set of guests in different orders.
Determinism ==
    twin.pc # "none" =>
        /\ twin.pc = pc
        /\ twin.assignments = assignments
        /\ twin.domains = domains
        /\ twin.solutions = solutions
        /\ twin.num_solutions = num_solutions
\* both runs have emitted several solutions of a problem with both kinds of
\* pair, iterating the guests in different orders
WitnessDeterminism ==
    /\ twin.pc # "none" /\ twin.order # order
    /\ Len(prefer) = 1 /\ Len(avoid) = 1
    /\ Len(solutions) >= 2 /\ Len(twin.solutions) >= 2
\* the guests that have no table yet
UnassignedGuests == (DOMAIN domains) \ (DOMAIN assignments)

\* C12: the search never goes on to select its next variable while a guest
\* without a table has an empty domain: the constraint evaluation that empties
\* a domain reports the branch as infeasible.
EmptyDomainInvariant ==
    pc = "select" => \A g \in UnassignedGuests : domains[g].list # <<>>

\* the number of guests that a dict seats at table t
SeatCount(asg, t) == Cardinality(SeatedAt(asg, t))
\* C13: when the capacity constraint, evaluated with forward checking for a
\* newly assigned guest, accepts the assignment, no guest without a table keeps
\* in its domain a table that already holds per_table guests.
CapacityForwardCheck ==
    (pc = "try" /\ values # <<>> /\ pushdomains # {} /\ constraints # <<>>) =>
        LET asg == Put(assignments, variable, Last(values))
            r == Call(constraints[1], Variables(guests),
                      pushStates(domains, pushdomains), asg, TRUE)
        IN r.ok =>
              \A g \in pushdomains : \A t \in Tables :
                  SeatCount(asg, t) >= constraints[1].max =>
                      t \notin Range(r.domains[g].list)

\* C14: once the search has gone on from an assignment with forward checking,
\* for every prefer pair of which exactly one guest has a table, the domain of
\* the other holds no table but that one, whichever of the two names it is.
EqualityForwardCheck ==
    pc = "select" =>
        \A i \in 1..Len(prefer) : \A a, b \in {prefer[i][1], prefer[i][2]} :
            (a \in DOMAIN assignments /\ b \in UnassignedGuests) =>
                Range(domains[b].list) \subseteq {assignments[a]}
\* the second name of the prefer pair has a table, the first has none, and of
\* several tables its domain has kept that one only
WitnessEqualityForwardCheck ==
    /\ pc = "select" /\ num_tables > 1 /\ Len(prefer) = 1
    /\ prefer[1][2] \in DOMAIN assignments
    /\ prefer[1][1] \in UnassignedGuests
    /\ domains[prefer[1][1]].list = <<assignments[prefer[1][2]]>>
\* the same with the first name seated and the second not
WitnessEqualityForwardCheckFirst ==
    /\ pc = "select" /\ num_tables > 1 /\ Len(prefer) = 1
    /\ prefer[1][1] \in DOMAIN assignments
    /\ prefer[1][2] \in UnassignedGuests
    /\ domains[prefer[1][2]].list = <<assignments[prefer[1][1]]>>

\* the guests that already have a table break the constraint c
Violates(c, asg) ==
    IF c.kind = "max" THEN \E t \in Tables : SeatCount(asg, t) > c.max
    ELSE /\ {c.names[1], c.names[2]} \subseteq DOMAIN asg
         /\ IF c.kind = "same" THEN asg[c.names[1]] # asg[c.names[2]]
            ELSE asg[c.names[1]] = asg[c.names[2]]
\* C15: a constraint called with an assignment whose seated guests break it
\* returns False, with and without forward checking, and hides no value from
\* any domain.
ViolationIndependent ==
    (pc = "returned" /\ Violates(constraints[1], assignments)) =>
        /\ ~returned.ok
        /\ domains = before[1]
\* an equality constraint called with forward checking, its two guests at
\* different tables and some other guest without a table
WitnessViolationForward ==
    /\ pc = "returned" /\ returned.forwardcheck
    /\ constraints[1].kind = "same" /\ Violates(constraints[1], assignments)
    /\ UnassignedGuests # {}
\* the capacity constraint called without forward checking on an overfull table
WitnessViolationCheap ==
    /\ pc = "returned" /\ ~returned.forwardcheck
    /\ constraints[1].kind = "max" /\ Violates(constraints[1], assignments)

\* the guest g is one the constraint c is about
Referenced(c, g) == c.kind = "max" \/ g \in {c.names[1], c.names[2]}
\* C16: a constraint called without forward checking leaves every domain as it
\* was; called with forward checking it adds no value to any domain and changes
\* the domains only of guests that have no table and that it is about (of a
\* pair: the one without a table).
FrameOfEvaluation ==
    pc = "returned" =>
        /\ ~returned.forwardcheck => domains = before[1]
        /\ \A g \in guests :
              /\ Range(domains[g].list) \subseteq Range(before[1][g].list)
              /\ domains[g] # before[1][g] =>
                    g \notin DOMAIN assignments /\ Referenced(constraints[1], g)
\* an inequality constraint called with forward checking has hidden a table
\* from one guest while other guests, with and without a table, kept theirs
WitnessFrame ==
    /\ pc = "returned" /\ returned.forwardcheck
    /\ constraints[1].kind = "different"
    /\ domains # before[1]
    /\ Cardinality(guests) >= 3 /\ Cardinality(UnassignedGuests) >= 2

\* the Domain now holds the candidates it held in was, with the same hidden
\* values and the same marks; the order of its list is left open
SameCandidates(now, was) ==
    /\ Range(now.list) = Range(was.list) /\ Len(now.list) = Len(was.list)
    /\ now.hidden = was.hidden
    /\ now.states = was.states
\* a step that undoes an assignment: a value rejected by a constraint, or an
\* entry taken back off the queue
ValueRejected == pc = "try" /\ values # <<>> /\ pc' = "try"
EntryTakenBack == Len(queue') < Len(queue)
TupleIn(ord, s) == [i \in 1..Len(ord) |-> s[ord[i]]]
\* a comes before b in lexicographic order
LexLess(a, b) ==
    \E i \in 1..Len(a) : a[i] < b[i] /\ \A j \in 1..(i - 1) : a[j] = b[j]
\* C18 as stated: the solutions are emitted in strictly increasing
\* lexicographic order of their tables, taken in the order in which the guests
\* were registered, and the first one emitted is the smallest valid seating.
EmissionOrder ==
    /\ \A i \in 1..(Len(solutions) - 1) :
          LexLess(TupleIn(order, solutions[i]), TupleIn(order, solutions[i + 1]))
    /\ solutions # <<>> =>
          \A s \in ValidAssignments :
              ~LexLess(TupleIn(order, s), TupleIn(order, solutions[1]))
\* C18 amended: the table of the guest whose name sorts first never goes up
\* from one solution to the next, and in a problem without pairs the solutions
\* are emitted in strictly decreasing lexicographic order of their tables,
\* taken in the order of the guests' names, the first being the largest valid
\* seating.
EmissionOrderDescending ==
    LET byname == SortedSeq(guests)
    IN /\ \A i \in 1..(Len(solutions) - 1) :
             solutions[i + 1][byname[1]] <= solutions[i][byname[1]]
       /\ (prefer = <<>> /\ avoid = <<>>) =>
             /\ \A i \in 1..(Len(solutions) - 1) :
                   LexLess(TupleIn(byname, solutions[i + 1]),
                           TupleIn(byname, solutions[i]))
             /\ solutions # <<>> =>
                   \A s \in ValidAssignments :
                       ~LexLess(TupleIn(byname, solutions[1]), TupleIn(byname, s))
\* several solutions of a problem without pairs, for several guests, emitted
\* by a run that iterates the set of guests against the order of the names
WitnessEmissionOrder ==
    /\ prefer = <<>> /\ avoid = <<>>
    /\ Cardinality(guests) >= 3 /\ num_tables >= 2
    /\ order # SortedSeq(guests)
    /\ Len(solutions) >= 3

\* C19: the run of a problem whose pairs name guests only stops nowhere but at
\* the exhaustion of the search or at the limit.
Termination == (NamesDeclared /\ Terminal) => EndedNormally
\* every run that keeps taking steps comes to an end of some kind
EveryRunEnds == <>Terminal

\* the guests of the i-th table that print_solution has printed
RenderedGuests(i) == Range(rendered[i].people)
\* C20: a printed table is flagged as previously seen exactly when a table
\* with the same set of guests was printed earlier in the run; sols_seen holds
\* one text for every set of guests printed so far, and it only grows.
RepeatFlagging ==
    /\ [](/\ \A i \in 1..Len(rendered) :
                /\ rendered[i].flagged <=>
                      \E j \in 1..(i - 1) : RenderedGuests(j) = RenderedGuests(i)
                /\ rendered[i].tbltext \in sols_seen
          /\ Cardinality(sols_seen) =
                Cardinality({RenderedGuests(i) : i \in 1..Len(rendered)}))
    /\ [][/\ sols_seen \subseteq sols_seen'
          /\ SubSeq(rendered', 1, Len(rendered)) = rendered]_vars
\* a table printed again is flagged, and the table of A and B is not flagged
\* after the table of the one guest whose name reads like the two
WitnessRepeatFlagging ==
    /\ \E i \in 1..Len(rendered) : rendered[i].flagged
    /\ \E i, j \in 1..Len(rendered) :
          /\ i < j
          /\ RenderedGuests(i) = {2} /\ RenderedGuests(j) = {1, 3}
          /\ ~rendered[j].flagged
====
